---- MODULE Spec2Model ----
(***************************************************************************)
(* Command batching engine of guestlib (cmd_batching.c).                   *)
(*                                                                         *)
(* Producers insert command records into the pending queue; the batch      *)
(* processing thread moves them to the active queue and emits them, or     *)
(* sends a lone synchronous command directly.  Time is counted in ticks of *)
(* one microsecond (scaled down).                                          *)
(***************************************************************************)
EXTENDS Integers, Sequences, FiniteSets, TLC

\* ---- bounds of the model ------------------------------------------------
MaxRecords == 3

\* ---- program constants (scaled) -----------------------------------------
BATCH_SIZE == 3
BATCH_TIME_OUT_US == 1
BATCH_QUEUE_TIME_OUT_US == 1
\* g_timer_elapsed() returns the elapsed time in seconds
G_USEC_PER_SEC == 2

WorkerIds == {3}
NoWrap == [cmd |-> 0, chan |-> 0, is_async |-> 0]

VARIABLES
  cmds,        \* the command records inserted so far, by id (1..Len)
  pending,     \* cmd_batch->pending_cmds: sequence of wrappers
  active,      \* cmd_batch->active_cmds: sequence of record ids
  running,     \* cmd_batch->running
  wpc,         \* position of batch_process_thread
  wrap,        \* the worker's local wrap (NoWrap = NULL)
  thread_id,   \* the worker's local thread_id
  elapsed,     \* ticks accumulated by the GTimer
  timerOn,     \* the GTimer is active (not stopped)
  waited,      \* ticks spent in the current g_async_queue_timeout_pop
  queue,       \* batch_emit: local GQueue
  total,       \* batch_emit: __total_buffer_size
  buffer,      \* batch_emit: __command_buffer, as the record ids copied
  offset,      \* batch_emit: offset
  freed,       \* record ids passed to free()
  wire,        \* what the transport was handed: sends and non-empty emits
  fpc,         \* position of cmd_batch_thread_fini
  cancelReq,   \* pthread_cancel was called on the worker
  stale,       \* who touched the Batch State after it was freed
  crashed,     \* the process died (failed assertion, wild access)
  uaf,         \* the worker read a record after it was sent or freed
  deqLog,      \* record ids in the order the worker popped them from pending
  activeHist,  \* record ids in the order they were pushed onto active
  insAct       \* the synchronous records inserted while active was non-empty

vars == <<cmds, pending, active, running, wpc, wrap, thread_id, elapsed, timerOn,
          waited, queue, total, buffer, offset, freed, wire, fpc, cancelReq, stale,
          crashed, uaf, deqLog, activeHist, insAct>>

prodVars == <<cmds, pending, insAct>>
emitVars == <<queue, total, buffer, offset>>
finiVars == <<fpc, cancelReq>>
histVars == <<deqLog, activeHist>>

\* ---- helpers ------------------------------------------------------------
\* g_timer_elapsed(timer, NULL) >= BATCH_TIME_OUT_US: the timer reports
\* seconds, elapsed counts microseconds
TimedOut(e) == e >= BATCH_TIME_OUT_US * G_USEC_PER_SEC
ElapsedCap == BATCH_TIME_OUT_US * G_USEC_PER_SEC

CmdBytes(c) == cmds[c].command_size + cmds[c].region_size

GQueuePushTail(q, c) == q \o <<c>>
GQueuePushHead(q, c) == <<c>> \o q
GQueueTail(q) == q[Len(q)]
GQueueDropTail(q) == SubSeq(q, 1, Len(q) - 1)

Released == freed \cup {wire[i].cmd : i \in {j \in 1..Len(wire) : wire[j].kind = "send"}}

\* first loop of batch_emit: pop everything, push at the head of the GQueue
RECURSIVE DrainLoop(_, _, _)
DrainLoop(act, q, tot) ==
  IF act = <<>> THEN [queue |-> q, total |-> tot]
  ELSE DrainLoop(Tail(act), GQueuePushHead(q, Head(act)), tot + CmdBytes(Head(act)))

\* second loop of batch_emit: pop from the tail, copy, free
RECURSIVE CopyLoop(_, _, _)
CopyLoop(q, buf, off) ==
  IF q = <<>> THEN [buffer |-> buf, offset |-> off]
  ELSE CopyLoop(GQueueDropTail(q), Append(buf, GQueueTail(q)), off + CmdBytes(GQueueTail(q)))

SeqSet(s) == {s[i] : i \in 1..Len(s)}

\* ---- cmd_batch_thread_init ----------------------------------------------
Init ==
  /\ cmds = <<>> /\ pending = <<>> /\ active = <<>>
  /\ running = 0
  /\ wpc = "start" /\ wrap = NoWrap /\ thread_id = 0
  /\ elapsed = 0 /\ timerOn = FALSE /\ waited = 0
  /\ queue = <<>> /\ total = 0 /\ buffer = <<>> /\ offset = 0
  /\ freed = {} /\ wire = <<>>
  /\ fpc = "idle" /\ cancelReq = FALSE /\ stale = {} /\ crashed = FALSE
  /\ uaf = FALSE /\ deqLog = <<>> /\ activeHist = <<>> /\ insAct = {}

\* ---- batch_insert_command -----------------------------------------------
\* The commands the producers insert: asynchronous ones of two sizes from two
\* threads with a channel each, and a synchronous one.
CmdInputs ==
  { [is_async |-> 1, command_size |-> 1, region_size |-> 0, thread_id |-> 1, chan |-> 11],
    [is_async |-> 1, command_size |-> 2, region_size |-> 1, thread_id |-> 2, chan |-> 12],
    [is_async |-> 0, command_size |-> 2, region_size |-> 0, thread_id |-> 2, chan |-> 12] }

\* pushed = FALSE is possible only when cmd_batch was freed: the read of
\* cmd_batch->pending_cmds is then a read of released memory
InsertCommand(cmd, chan, is_async, pushed) ==
  /\ ~crashed
  /\ Len(cmds) < MaxRecords
  /\ (fpc = "returned" \/ pushed)
  /\ LET id == Len(cmds) + 1
         w == [cmd |-> id, chan |-> chan, is_async |-> is_async]
     IN /\ cmds' = Append(cmds, cmd)
        /\ insAct' = IF is_async = 0 /\ active # <<>> THEN insAct \cup {id} ELSE insAct
        /\ pending' = IF pushed THEN Append(pending, w) ELSE pending
        /\ crashed' = ~pushed
        /\ stale' = IF fpc = "returned" THEN stale \cup {"insert"} ELSE stale
  /\ UNCHANGED <<active, running, wpc, wrap, thread_id, elapsed, timerOn, waited,
                 freed, wire, uaf>>
  /\ UNCHANGED <<emitVars, finiVars, histVars>>

Insert == \E c \in CmdInputs, ok \in BOOLEAN : InsertCommand(c, c.chan, c.is_async, ok)

\* ---- batch_process_thread -----------------------------------------------
Alive == wpc \notin {"done", "cancelled"}

\* lines 88-90: shadow_thread_id, cmd_batch->running = 1
WStart ==
  /\ ~crashed /\ wpc = "start"
  /\ \E t \in WorkerIds : thread_id' = t
  /\ running' = 1
  /\ wpc' = "setup"
  /\ UNCHANGED <<active, wrap, elapsed, timerOn, waited, freed, wire, stale, crashed, uaf>>
  /\ UNCHANGED <<prodVars, emitVars, finiVars, histVars>>

\* lines 91-101: cancel state and type, g_timer_start
WSetup ==
  /\ ~crashed /\ wpc = "setup"
  /\ elapsed' = 0 /\ timerOn' = TRUE
  /\ wpc' = "loop"
  /\ UNCHANGED <<active, running, wrap, thread_id, waited, freed, wire, stale, crashed, uaf>>
  /\ UNCHANGED <<prodVars, emitVars, finiVars, histVars>>

\* line 103: while (cmd_batch->running)
WLoop ==
  /\ ~crashed /\ wpc = "loop"
  /\ wpc' = IF running = 1 THEN "pop" ELSE "exit"
  /\ waited' = 0
  /\ UNCHANGED <<active, running, wrap, thread_id, elapsed, timerOn, freed, wire,
                 stale, crashed, uaf>>
  /\ UNCHANGED <<prodVars, emitVars, finiVars, histVars>>

\* line 104: the wait of g_async_queue_timeout_pop ends with NULL once
\* BATCH_QUEUE_TIME_OUT_US have passed on the empty queue
PopBlocks(w) == FALSE
PopTimedOut(w) == w >= BATCH_QUEUE_TIME_OUT_US

\* line 104: g_async_queue_timeout_pop(pending_cmds, BATCH_QUEUE_TIME_OUT_US)
WPop ==
  /\ ~crashed /\ wpc = "pop"
  /\ \/ /\ pending # <<>>
        /\ wrap' = Head(pending)
        /\ pending' = Tail(pending)
        /\ deqLog' = Append(deqLog, Head(pending).cmd)
     \/ /\ pending = <<>>
        /\ PopTimedOut(waited)
        /\ wrap' = NoWrap
        /\ UNCHANGED <<pending, deqLog>>
  /\ wpc' = "chk"
  /\ UNCHANGED <<cmds, insAct, activeHist>>
  /\ UNCHANGED <<active, running, thread_id, elapsed, timerOn, waited, freed, wire,
                 stale, crashed, uaf>>
  /\ UNCHANGED <<emitVars, finiVars>>

\* line 106: if (!cmd_batch->running) break
WChk ==
  /\ ~crashed /\ wpc = "chk"
  /\ wpc' = IF running = 0 THEN "exit" ELSE "eval"
  /\ UNCHANGED <<active, running, wrap, thread_id, elapsed, timerOn, waited, freed,
                 wire, stale, crashed, uaf>>
  /\ UNCHANGED <<prodVars, emitVars, finiVars, histVars>>

\* line 117: wrap && !wrap->is_async && g_async_queue_length(active_cmds) == 0
FastPathAnySync(w, act) == w # NoWrap /\ w.is_async = 0
FastPath(w, act) == w # NoWrap /\ w.is_async = 0 /\ Len(act) = 0

\* line 120: wrap->cmd->thread_id = thread_id
StampKeep(c, tid) == c
StampThreadId(c, tid) == [c EXCEPT !.thread_id = tid]

\* lines 117-125: emit the single synchronous API
WDirectSend ==
  /\ ~crashed /\ wpc = "eval"
  /\ FastPath(wrap, active)
  /\ cmds' = [cmds EXCEPT ![wrap.cmd] = StampThreadId(cmds[wrap.cmd], thread_id)]
  /\ wire' = Append(wire, [kind |-> "send", cmd |-> wrap.cmd, chan |-> wrap.chan,
                           thread_id |-> cmds'[wrap.cmd].thread_id, buf |-> <<wrap.cmd>>,
                           len |-> CmdBytes(wrap.cmd), iter |-> wrap.cmd,
                           timed |-> FALSE])
  /\ uaf' = (uaf \/ wrap.cmd \in Released)
  /\ wrap' = NoWrap
  /\ elapsed' = 0 /\ timerOn' = TRUE
  /\ wpc' = "loop"
  /\ UNCHANGED <<pending, insAct>>
  /\ UNCHANGED <<active, running, thread_id, waited, freed, stale, crashed>>
  /\ UNCHANGED <<emitVars, finiVars, histVars>>

\* line 127: if (wrap) g_async_queue_push(active_cmds, wrap->cmd)
ActivePush(act, w) == IF w # NoWrap THEN Append(act, w.cmd) ELSE act

\* lines 133-134: the condition that fires batch_emit
FlushCondNoSync(w, act, e) == Len(act) >= BATCH_SIZE \/ TimedOut(e)
FlushCondAbove(w, act, e) ==
  \/ (w # NoWrap /\ w.is_async = 0)
  \/ Len(act) > BATCH_SIZE
  \/ TimedOut(e)
FlushCond(w, act, e) ==
  \/ (w # NoWrap /\ w.is_async = 0)
  \/ Len(act) >= BATCH_SIZE
  \/ TimedOut(e)

\* line 142: g_timer_continue resumes the stopped timer at the time it held
GTimerRestart(e) == 0
GTimerContinue(e) == e

\* lines 127-145 without the call of batch_emit: push onto active, g_timer_stop,
\* the test; when it fails g_timer_continue and g_free(wrap)
WAccumulate ==
  /\ ~crashed /\ wpc = "eval"
  /\ ~FastPath(wrap, active)
  /\ active' = ActivePush(active, wrap)
  /\ activeHist' = ActivePush(activeHist, wrap)
  /\ IF FlushCond(wrap, active', elapsed)
       THEN /\ timerOn' = FALSE
            /\ elapsed' = elapsed
            /\ uaf' = (uaf \/ (wrap # NoWrap /\ wrap.is_async = 0 /\ wrap.cmd \in Released))
            /\ wrap' = wrap
            /\ wpc' = "emit_pack"
       ELSE /\ timerOn' = TRUE
            /\ elapsed' = GTimerContinue(elapsed)
            /\ uaf' = uaf
            /\ wrap' = NoWrap
            /\ wpc' = "loop"
  /\ UNCHANGED deqLog
  /\ UNCHANGED <<running, thread_id, waited, freed, wire, stale,
                 crashed>>
  /\ UNCHANGED <<prodVars, emitVars, finiVars>>

\* batch_emit reading active_cmds without popping
WEmitPackKeep ==
  /\ ~crashed /\ wpc = "emit_pack"
  /\ LET d == DrainLoop(active, <<>>, 0)
         c == CopyLoop(d.queue, <<>>, 0)
     IN /\ total' = d.total
        /\ buffer' = c.buffer
        /\ offset' = c.offset
        /\ crashed' = (c.offset # d.total)
        /\ freed' = freed \cup SeqSet(d.queue)
        /\ uaf' = uaf
  /\ queue' = <<>>
  /\ wpc' = "emit_call"
  /\ UNCHANGED <<active, running, wrap, thread_id, elapsed, timerOn, waited, wire,
                 stale>>
  /\ UNCHANGED <<prodVars, finiVars, histVars>>

\* batch_emit lines 31-51: drain active_cmds into the local queue, then copy
\* each record into the buffer and free it; the assertion of line 50
WEmitPack ==
  /\ ~crashed /\ wpc = "emit_pack"
  /\ LET d == DrainLoop(active, <<>>, 0)
         c == CopyLoop(d.queue, <<>>, 0)
     IN /\ total' = d.total
        /\ buffer' = c.buffer
        /\ offset' = c.offset
        /\ crashed' = (c.offset # d.total)
        /\ freed' = freed \cup SeqSet(d.queue)
        /\ uaf' = (uaf \/ SeqSet(d.queue) \cap Released # {})
  /\ active' = <<>>
  /\ queue' = <<>>
  /\ wpc' = "emit_call"
  /\ UNCHANGED <<running, wrap, thread_id, elapsed, timerOn, waited, wire, stale>>
  /\ UNCHANGED <<prodVars, finiVars, histVars>>

\* batch_emit line 54: __do_batch_emit(__command_buffer, __total_buffer_size)
WEmitCall ==
  /\ ~crashed /\ wpc = "emit_call"
  /\ wire' = IF buffer = <<>> THEN wire
             ELSE Append(wire, [kind |-> "emit", cmd |-> 0, chan |-> 0,
                                thread_id |-> 0, buf |-> buffer, len |-> total,
                                iter |-> wrap.cmd, timed |-> TimedOut(elapsed)])
  /\ wpc' = "emit_ret"
  /\ UNCHANGED <<active, running, wrap, thread_id, elapsed, timerOn, waited, freed,
                 stale, crashed, uaf>>
  /\ UNCHANGED <<prodVars, emitVars, finiVars, histVars>>

\* batch_emit lines 56-57, then lines 140 and 145: release the buffer,
\* g_timer_start, g_free(wrap)
WEmitReturn ==
  /\ ~crashed /\ wpc = "emit_ret"
  /\ buffer' = <<>> /\ total' = 0 /\ offset' = 0
  /\ elapsed' = 0 /\ timerOn' = TRUE
  /\ wrap' = NoWrap
  /\ wpc' = "loop"
  /\ UNCHANGED queue
  /\ UNCHANGED <<active, running, thread_id, waited, freed, wire, stale,
                 crashed, uaf>>
  /\ UNCHANGED <<prodVars, finiVars, histVars>>

\* lines 148-150: g_timer_destroy, return
WExit ==
  /\ ~crashed /\ wpc = "exit"
  /\ timerOn' = FALSE
  /\ wpc' = "done"
  /\ UNCHANGED <<active, running, wrap, thread_id, elapsed, waited, freed, wire,
                 stale, crashed, uaf>>
  /\ UNCHANGED <<prodVars, emitVars, finiVars, histVars>>

\* A requested cancellation takes effect.  Until line 95 the type is
\* deferred and lines 88-90 hold no cancellation point; from line 95 on the
\* type is PTHREAD_CANCEL_ASYNCHRONOUS and the thread can end anywhere.
WCancel ==
  /\ ~crashed /\ cancelReq
  /\ wpc \notin {"start", "done", "cancelled"}
  /\ wpc' = "cancelled"
  /\ UNCHANGED <<active, running, wrap, thread_id, elapsed, timerOn, waited, freed,
                 wire, stale, crashed, uaf>>
  /\ UNCHANGED <<prodVars, emitVars, finiVars, histVars>>

\* ---- time ---------------------------------------------------------------
\* One microsecond passes: the running timer and the timed wait advance.
Tick ==
  /\ ~crashed
  /\ elapsed' = IF timerOn /\ Alive /\ elapsed < ElapsedCap THEN elapsed + 1 ELSE elapsed
  /\ waited' = IF wpc = "pop" /\ waited < BATCH_QUEUE_TIME_OUT_US THEN waited + 1 ELSE waited
  /\ <<elapsed', waited'>> # <<elapsed, waited>>
  /\ UNCHANGED <<active, running, wpc, wrap, thread_id, timerOn, freed, wire,
                 stale, crashed, uaf>>
  /\ UNCHANGED <<prodVars, emitVars, finiVars, histVars>>

\* ---- cmd_batch_thread_fini ----------------------------------------------
\* line 171: cmd_batch->running = 0
FiniSetRunning ==
  /\ ~crashed /\ fpc = "idle"
  /\ running' = 0
  /\ fpc' = "cancel"
  /\ UNCHANGED cancelReq
  /\ UNCHANGED <<active, wpc, wrap, thread_id, elapsed, timerOn, waited, freed, wire,
                 stale, crashed, uaf>>
  /\ UNCHANGED <<prodVars, emitVars, histVars>>

\* cmd_batch_thread_fini without the pthread_cancel of line 172
FiniNoCancel ==
  /\ ~crashed /\ fpc = "cancel"
  /\ cancelReq' = FALSE
  /\ fpc' = "join"
  /\ UNCHANGED <<active, running, wpc, wrap, thread_id, elapsed, timerOn, waited,
                 freed, wire, stale, crashed, uaf>>
  /\ UNCHANGED <<prodVars, emitVars, histVars>>

\* line 172: pthread_cancel(cmd_batch->process_thread)
FiniCancel ==
  /\ ~crashed /\ fpc = "cancel"
  /\ cancelReq' = TRUE
  /\ fpc' = "join"
  /\ UNCHANGED <<active, running, wpc, wrap, thread_id, elapsed, timerOn, waited,
                 freed, wire, stale, crashed, uaf>>
  /\ UNCHANGED <<prodVars, emitVars, histVars>>

\* line 173: pthread_join returns once the worker has terminated
JoinedAnyway(pc) == TRUE
Joined(pc) == pc \in {"done", "cancelled"}

FiniJoin ==
  /\ ~crashed /\ fpc = "join"
  /\ Joined(wpc)
  /\ fpc' = "unref"
  /\ UNCHANGED cancelReq
  /\ UNCHANGED <<active, running, wpc, wrap, thread_id, elapsed, timerOn, waited,
                 freed, wire, stale, crashed, uaf>>
  /\ UNCHANGED <<prodVars, emitVars, histVars>>

\* line 174: g_async_queue_unref(active_cmds) frees what the queue still holds
FiniUnref ==
  /\ ~crashed /\ fpc = "unref"
  /\ freed' = freed \cup SeqSet(active)
  /\ active' = <<>>
  /\ fpc' = "free"
  /\ UNCHANGED cancelReq
  /\ UNCHANGED <<running, wpc, wrap, thread_id, elapsed, timerOn, waited, wire,
                 stale, crashed, uaf>>
  /\ UNCHANGED <<prodVars, emitVars, histVars>>

\* line 177: free(cmd_batch), return
FiniFree ==
  /\ ~crashed /\ fpc = "free"
  /\ fpc' = "returned"
  /\ UNCHANGED cancelReq
  /\ UNCHANGED <<active, running, wpc, wrap, thread_id, elapsed, timerOn, waited,
                 freed, wire, stale, crashed, uaf>>
  /\ UNCHANGED <<prodVars, emitVars, histVars>>

\* cmd_batch_thread_fini called again on the freed cmd_batch: line 171 writes
\* released memory, lines 172-177 use a joined thread handle, a destroyed
\* queue and free the struct a second time.  The call may return, abort the
\* process, or never come back from pthread_join.
FiniAgain ==
  /\ ~crashed /\ fpc = "returned"
  /\ "fini" \notin stale
  /\ stale' = stale \cup {"fini"}
  /\ \E outcome \in {"returned", "blocked", "crashed"} :
        /\ fpc' = IF outcome = "blocked" THEN "blocked" ELSE "returned"
        /\ crashed' = (outcome = "crashed")
  /\ UNCHANGED cancelReq
  /\ UNCHANGED <<active, running, wpc, wrap, thread_id, elapsed, timerOn, waited,
                 freed, wire, uaf>>
  /\ UNCHANGED <<prodVars, emitVars, histVars>>

\* ---- specification ------------------------------------------------------
Next ==
  \/ Insert
  \/ WStart \/ WSetup \/ WLoop \/ WPop \/ WChk \/ WDirectSend \/ WAccumulate
  \/ WEmitPack \/ WEmitCall \/ WEmitReturn \/ WExit
  \/ WCancel
  \/ Tick
  \/ FiniSetRunning \/ FiniCancel \/ FiniJoin \/ FiniUnref \/ FiniFree \/ FiniAgain

Spec == Init /\ [][Next]_vars

\* the steps of batch_process_thread, lines 88-150
Worker ==
  \/ WStart \/ WSetup \/ WLoop \/ WPop \/ WChk \/ WDirectSend \/ WAccumulate
  \/ WEmitPack \/ WEmitCall \/ WEmitReturn \/ WExit

\* the steps of cmd_batch_thread_fini after its first statement, lines 172-178
FiniRest == FiniCancel \/ FiniJoin \/ FiniUnref \/ FiniFree

\* the threads are scheduled: the worker thread and a thread inside
\* cmd_batch_thread_fini keep running, a requested asynchronous cancellation
\* is acted upon, and time passes; inserting and calling Stop stay optional
FairSpec == Init /\ [][Next]_vars /\ WF_vars(Worker) /\ WF_vars(WCancel)
              /\ WF_vars(FiniRest) /\ WF_vars(Tick)

TypeOK ==
  /\ running \in {0, 1}
  /\ Len(cmds) <= MaxRecords
  /\ elapsed \in 0..ElapsedCap
  /\ waited \in 0..BATCH_QUEUE_TIME_OUT_US

\* ---- what the transport received ----------------------------------------
RECURSIVE Flat(_)
Flat(w) == IF w = <<>> THEN <<>> ELSE Head(w).buf \o Flat(Tail(w))

Sends == {i \in 1..Len(wire) : wire[i].kind = "send"}
Emits == {i \in 1..Len(wire) : wire[i].kind = "emit"}
EmitsOnly == SelectSeq(wire, LAMBDA e : e.kind = "emit")

Times(c, s) == Cardinality({i \in 1..Len(s) : s[i] = c})
IsPrefix(s, t) == Len(s) <= Len(t) /\ SubSeq(t, 1, Len(s)) = s
Increasing(s) == \A i \in 1..Len(s) - 1 : s[i] < s[i + 1]
Last(s) == s[Len(s)]

RECURSIVE SumBytes(_)
SumBytes(s) == IF s = <<>> THEN 0 ELSE CmdBytes(Head(s)) + SumBytes(Tail(s))

Ids == 1..Len(cmds)
Delivered == SeqSet(Flat(wire))
\* a record the engine still holds: in a queue, in the worker's wrapper, or
\* in batch_emit's local queue or buffer
Held(c) ==
  \/ \E i \in 1..Len(pending) : pending[i].cmd = c
  \/ wrap.cmd = c
  \/ c \in SeqSet(active) \cup SeqSet(queue) \cup SeqSet(buffer)

\* C1: while Stop has not been called, every inserted record is handed to
\* the transport at most once (by one direct send or in one flush buffer,
\* never both), a record the engine no longer holds was handed over exactly
\* once, and the worker reads no record after it was sent or freed.
C1_ExactlyOnce ==
  /\ \A c \in Ids : Times(c, Flat(wire)) <= 1
  /\ fpc = "idle" => \A c \in Ids : ~Held(c) => Times(c, Flat(wire)) = 1
  /\ ~uaf

C1_Witness ==
  /\ fpc = "idle" /\ Len(cmds) >= 3 /\ Delivered = Ids
  /\ Sends # {} /\ Emits # {}
  /\ wpc = "pop"

\* C2: every buffer handed to __do_batch_emit holds the drained records in
\* the order they were pushed onto the active queue, which is insertion
\* order; its length is the sum of command_size + region_size over them; the
\* assertion offset == __total_buffer_size never fails.
C2_FlushBuffer ==
  /\ IsPrefix(Flat(EmitsOnly), activeHist)
  /\ \A i \in Emits : /\ Increasing(wire[i].buf)
                      /\ wire[i].len = SumBytes(wire[i].buf)
  /\ wpc = "emit_call" => offset = total /\ total = SumBytes(buffer)
  /\ crashed => stale # {}

C2_Witness ==
  \E i \in Emits : Len(wire[i].buf) >= 2 /\ wire[i].len >= 4

IsSync(c) == cmds[c].is_async = 0
IsAsyncCmd(c) == cmds[c].is_async = 1
SyncWrap == wrap # NoWrap /\ wrap.is_async = 0
\* the asynchronous records inserted right before record c, back to the
\* previous synchronous one
AsyncRun(c) == {a \in 1..(c - 1) : \A b \in a..(c - 1) : IsAsyncCmd(b)}
\* the worker's step out of the evaluation of line 117
LeavesEval == wpc = "eval" /\ wpc' \notin {"eval", "cancelled"}

\* C3 as stated: K >= 1 asynchronous records followed by a synchronous one
\* inserted while the active queue is non-empty end up, all K+1 of them, in
\* one flush with the synchronous record last.
C3_Orig ==
  \A c \in insAct :
    (AsyncRun(c) # {} /\ c \in Delivered) =>
      \E i \in Emits : /\ Last(wire[i].buf) = c
                       /\ AsyncRun(c) \subseteq SeqSet(wire[i].buf)

\* C3 amended: a synchronous record that the worker dequeues while the
\* active queue is non-empty is not sent directly: the same iteration pushes
\* it onto the active queue and goes on to flush, the flush buffer is the
\* active queue in push order with the synchronous record last, and no
\* record dequeued later is part of that flush.
C3_SyncClosesBatch ==
  /\ [][(LeavesEval /\ SyncWrap /\ active # <<>>) =>
          /\ wpc' = "emit_pack"
          /\ active' = Append(active, wrap.cmd)
          /\ wire' = wire /\ wrap' = wrap]_vars
  /\ [](wpc = "emit_pack" /\ SyncWrap => active # <<>> /\ Last(active) = wrap.cmd)
  /\ [](wpc = "emit_call" /\ SyncWrap => buffer # <<>> /\ Last(buffer) = wrap.cmd)
  /\ [](\A i \in Emits :
          /\ \A k \in 1..Len(wire[i].buf) - 1 : IsAsyncCmd(wire[i].buf[k])
          /\ IsSync(Last(wire[i].buf)) => wire[i].iter = Last(wire[i].buf)
          /\ (wire[i].iter # 0 /\ IsSync(wire[i].iter)) =>
                /\ Last(wire[i].buf) = wire[i].iter
                /\ \A k \in 1..Len(wire[i].buf) : wire[i].buf[k] <= wire[i].iter)

C3_Witness ==
  \E i \in Emits : /\ Len(wire[i].buf) >= 2
                   /\ IsSync(Last(wire[i].buf))
                   /\ Len(deqLog) > Last(wire[i].buf)

\* C4: a synchronous record dequeued while the active queue is empty is
\* sent directly on its own channel, with thread_id rewritten to the worker's
\* logical id; it is never pushed onto the active queue and that iteration
\* calls no __do_batch_emit.
C4_FastPath ==
  /\ [][(LeavesEval /\ SyncWrap /\ active = <<>>) =>
          /\ wpc' = "loop"
          /\ active' = <<>> /\ activeHist' = activeHist
          /\ Len(wire') = Len(wire) + 1
          /\ Last(wire').kind = "send" /\ Last(wire').cmd = wrap.cmd]_vars
  /\ [](\A i \in Sends :
          /\ IsSync(wire[i].cmd)
          /\ wire[i].chan = cmds[wire[i].cmd].chan
          /\ wire[i].thread_id = thread_id
          /\ cmds[wire[i].cmd].thread_id = thread_id
          /\ wire[i].cmd \notin SeqSet(activeHist)
          /\ \A j \in Emits : wire[j].iter # wire[i].cmd)

C4_Witness ==
  \E i \in Sends : /\ wire[i].chan = 12
                   /\ wire[i].thread_id = 3
                   /\ cmds[wire[i].cmd].thread_id = 3

AllAsync == \A c \in Ids : IsAsyncCmd(c)
BetweenIterations == wpc \in {"loop", "pop", "chk", "eval"}
OneFullFlush ==
  /\ Len(wire) = 1 /\ wire[1].kind = "emit"
  /\ wire[1].buf = [k \in 1..BATCH_SIZE |-> k]
  /\ wire[1].iter = BATCH_SIZE

\* C5 as stated: BATCH_SIZE asynchronous records inserted into an empty
\* engine are flushed by exactly one flush, which holds them all and fires on
\* the iteration that moves the last of them.
C5_Orig ==
  (Len(cmds) = BATCH_SIZE /\ AllAsync /\ Delivered = Ids) => OneFullFlush

\* C5 amended: the size trigger fires on the iteration that brings the
\* active queue to BATCH_SIZE records, whatever the elapsed time, so the
\* queue is below BATCH_SIZE between iterations; BATCH_SIZE asynchronous
\* records inserted into an empty engine are flushed by exactly one flush
\* holding them all provided the time trigger has fired on none of them
\* before.
C5_SizeTrigger ==
  /\ BetweenIterations => Len(active) < BATCH_SIZE
  /\ \A i \in Emits :
       (~wire[i].timed /\ wire[i].iter # 0 /\ IsAsyncCmd(wire[i].iter)) =>
          /\ Len(wire[i].buf) = BATCH_SIZE
          /\ Last(wire[i].buf) = wire[i].iter
  /\ (Len(cmds) = BATCH_SIZE /\ AllAsync /\ Delivered = Ids
        /\ \A i \in Emits : ~wire[i].timed) => OneFullFlush

C5_Witness ==
  /\ Len(cmds) = BATCH_SIZE /\ AllAsync /\ Delivered = Ids
  /\ OneFullFlush /\ ~wire[1].timed

\* C6 as stated: one asynchronous record inserted into an empty engine and
\* no further insert: __do_batch_emit is called exactly once, with that
\* record alone.  So every call made after the insert carries exactly that
\* record, and no flush follows the one that delivered it.
C6_Orig ==
  (Len(cmds) = 1 /\ AllAsync /\ fpc = "idle") =>
     /\ wpc = "emit_call" => buffer = <<1>>
     /\ 1 \in Delivered => (wire = <<wire[1]>> /\ wpc \notin {"emit_pack", "emit_call"})

\* C7: the transport receives the records in the order the worker dequeued
\* them from the pending queue, without gaps: what was transmitted so far is
\* a prefix of the dequeue order, so no direct send overtakes a record still
\* waiting in the active queue.
C7_WireOrder ==
  /\ IsPrefix(Flat(wire), deqLog)
  /\ \A i \in Sends : \A c \in SeqSet(active) \cup SeqSet(queue) \cup SeqSet(buffer) :
        c > wire[i].cmd \/ c \in SeqSet(Flat(SubSeq(wire, 1, i)))

C7_Witness ==
  \E i \in Emits, j \in Sends, k \in Emits : i < j /\ j < k

\* C8 as stated: a second cmd_batch_thread_fini reads and writes nothing and
\* does not block.
C8_Orig == "fini" \notin stale /\ fpc # "blocked"

\* C9 as stated: after cmd_batch_thread_fini returned, an insert adds no
\* wrapper to the pending queue and does not touch the released Batch State.
C9_Orig ==
  [][fpc = "returned" => (pending' = pending /\ ("insert" \in stale' => "insert" \in stale))]_vars

PastJoin == fpc \in {"unref", "free", "returned", "blocked"}

\* C10: once cmd_batch_thread_fini is past pthread_join the worker is
\* terminated, and it never again pops pending, pushes onto active, sends,
\* emits or moves.
C10_JoinBeforeRelease ==
  /\ [](PastJoin => ~Alive)
  /\ [][PastJoin => (wpc' = wpc /\ deqLog' = deqLog /\ activeHist' = activeHist
                      /\ wire' = wire /\ wrap' = wrap)]_vars

C10_Witness ==
  /\ fpc = "returned" /\ wpc = "cancelled" /\ pending # <<>> /\ wire # <<>>

\* C11 as stated: the worker is never terminated by the cancellation while
\* batch_emit holds drained records that __do_batch_emit has not yet
\* received.
C11_Orig ==
  wpc = "cancelled" => (buffer = <<>> \/ SeqSet(buffer) \subseteq Delivered)

\* the places that can hold a record: the pending queue, the worker's
\* wrapper, the active queue, the local queue of batch_emit
Holders(c) ==
  {h \in {"pending", "wrap", "active", "queue"} :
     \/ h = "pending" /\ \E i \in 1..Len(pending) : pending[i].cmd = c
     \/ h = "wrap" /\ wrap.cmd = c
     \/ h = "active" /\ c \in SeqSet(active)
     \/ h = "queue" /\ c \in SeqSet(queue)}

\* C12 as stated: a record is held by at most one of the pending queue, the
\* worker's wrapper, the active queue and the local queue of batch_emit; a
\* freed record is in no queue any more (so it is not freed again); and a
\* record whose delivery completed has been freed.
C12_Orig ==
  \A c \in Ids :
    /\ Cardinality(Holders(c)) <= 1
    /\ c \in freed => Holders(c) \subseteq {"wrap"}
    /\ (c \in Delivered /\ Holders(c) = {}) => c \in freed

C13_Step ==
  (LeavesEval /\ ~(SyncWrap /\ active = <<>>)) =>
     /\ (wpc' = "emit_pack") <=>
           (SyncWrap \/ Len(active') >= BATCH_SIZE \/ elapsed >= BATCH_TIME_OUT_US)
     /\ wpc' # "emit_pack" => (wpc' = "loop" /\ active' = ActivePush(active, wrap))

\* C13 as stated: on an iteration that does not take the fast path the
\* flush fires exactly when the wrapper is synchronous, or the active queue
\* has reached BATCH_SIZE after the push, or the timer has reached
\* BATCH_TIME_OUT_US microseconds; without a flush the active queue keeps its
\* records.
C13_Orig == [][C13_Step]_vars

C14_OrigStep ==
  /\ elapsed' < elapsed => wpc = "emit_ret"
  /\ (wpc = "eval" /\ wpc' = "loop") => (elapsed' = elapsed /\ timerOn')

\* C14 as stated: the timer goes back to zero only at the end of a flush;
\* every iteration without a flush, a direct send included, resumes it at the
\* time it held.
C14_Orig == [][C14_OrigStep]_vars

C14_Step ==
  /\ elapsed' < elapsed =>
        (wpc = "emit_ret" \/ (wpc = "eval" /\ Len(wire') > Len(wire)))
  /\ (wpc = "eval" /\ wpc' = "loop" /\ wire' = wire) =>
        (elapsed' = elapsed /\ timerOn')

\* C14: the timer goes back to zero only at the end of a flush or at a direct
\* send; an iteration that neither flushed nor sent directly resumes the
\* timer at the time it held.
C14_TimerReset == [][C14_Step]_vars

C14_Witness ==
  /\ wpc = "loop" /\ timerOn /\ elapsed > 0 /\ active # <<>>
  /\ Sends # {} /\ Emits = {}

C16_StopReturns ==
  /\ (fpc = "cancel") ~> (fpc = "returned")
  /\ [](fpc = "returned" => ~Alive)

C16_Witness ==
  fpc = "returned" /\ wpc = "cancelled" /\ running = 1

\* C17: while the worker is at the start of an iteration, about to wait or
\* waiting on the pending queue, the active queue holds asynchronous records
\* only.
C17_NoSyncWaiting ==
  wpc \in {"loop", "pop"} => \A c \in SeqSet(active) : IsAsyncCmd(c)

C17_Witness ==
  /\ wpc = "pop" /\ active # <<>>
  /\ \E i \in Emits : IsSync(Last(wire[i].buf)) /\ Len(wire[i].buf) >= 2

C18_Step ==
  /\ (wpc = "eval" /\ Len(wire') > Len(wire)) => (active = <<>> /\ active' = <<>>)
  /\ (active' # active /\ ~PastJoin /\ fpc # "unref") =>
        (wpc \in {"eval", "emit_pack"} /\ wpc' # wpc /\ wpc' # "cancelled")

\* C18: the active queue never holds more than BATCH_SIZE records, holds
\* fewer while the worker waits on the pending queue, is empty right after
\* the drain of a flush and at a direct send, and while the engine runs only
\* a step of the worker changes it.
C18_ActiveBounded ==
  /\ [](Len(active) <= BATCH_SIZE)
  /\ [](wpc \in {"loop", "pop", "chk"} => Len(active) < BATCH_SIZE)
  /\ [](wpc \in {"emit_call", "emit_ret"} => active = <<>>)
  /\ [][C18_Step]_vars

C18_Witness ==
  wpc = "emit_pack" /\ Len(active) = BATCH_SIZE /\ wrap # NoWrap /\ wrap.is_async = 1

\* C19 as stated: every call of __do_batch_emit carries at least one record.
C19_Orig == wpc = "emit_call" => (buffer # <<>> /\ total > 0)

C20_Step ==
  /\ (fpc # "idle" /\ running = 0) => running' = 0
  /\ wpc \in {"exit", "done"} => (wire' = wire /\ activeHist' = activeHist)

\* C20 as stated: running is true from the return of cmd_batch_thread_init
\* until Stop; once cmd_batch_thread_fini has set it to false it stays false;
\* the worker that has left the loop runs no iteration body any more.
C20_Orig ==
  /\ [](fpc = "idle" => running = 1)
  /\ [][C20_Step]_vars

====
